---- MODULE Spec2Model ----
(***************************************************************************)
(* Model of src/parser.py: parse_markdown, split_into_blocks, parse_block, *)
(* parse_header, parse_paragraph and parse_part.                           *)
(*                                                                         *)
(* A Python string is a sequence of characters, one string per character.  *)
(* Every regular expression of the source is an operator that computes     *)
(* what the expression matches (leftmost, greedy, non-overlapping), so     *)
(* that the splits and joins of the source are computed, not assumed.      *)
(***************************************************************************)
EXTENDS Integers, Sequences, FiniteSets, TLC

VARIABLES string, pc, _blocks, i, tmp, closed, blocks, j, doc

vars == <<string, pc, _blocks, i, tmp, closed, blocks, j, doc>>

(***************************************************************************)
(* Characters and strings                                                  *)
(***************************************************************************)
\* the backquote character (a backquote cannot be written in a TLA+ string)
BT == "BQ"
NL == "\n"
SP == " "
STAR == "*"
HASH == "#"

FENCE == <<BT, BT, BT>>

\* the class \s restricted to the characters of the model
IsWs(c) == c \in {SP, NL}

MinOf(S) == CHOOSE x \in S : \A y \in S : x <= y
MaxOf(S) == CHOOSE x \in S : \A y \in S : x >= y

StartsWith(s, p) == Len(s) >= Len(p) /\ SubSeq(s, 1, Len(p)) = p
EndsWith(s, p) == Len(s) >= Len(p) /\ SubSeq(s, Len(s) - Len(p) + 1, Len(s)) = p

\* s[b .. e-1], the Python slice s[b:e] with 1-based b and exclusive e
Slice(s, b, e) == IF e <= b THEN <<>> ELSE SubSeq(s, b, e - 1)

\* length of the run of characters of C that starts at position p of s
RunLen(s, p, C) ==
  LET stops == {k \in p..Len(s) : s[k] \notin C}
  IN  IF stops = {} THEN Len(s) - p + 1 ELSE MinOf(stops) - p

\* str.strip()
Strip(s) ==
  LET keep == {k \in 1..Len(s) : ~IsWs(s[k])}
  IN  IF keep = {} THEN <<>> ELSE SubSeq(s, MinOf(keep), MaxOf(keep))

\* sep.join(parts)
RECURSIVE Join(_, _)
Join(parts, sep) ==
  IF Len(parts) = 0 THEN <<>>
  ELSE IF Len(parts) = 1 THEN parts[1]
  ELSE parts[1] \o sep \o Join(Tail(parts), sep)

\* the pieces of s around the matches ms (pairs <<begin, end>>, end
\* exclusive): re.split without a capturing group
Pieces(s, ms) ==
  [k \in 1..(Len(ms) + 1) |->
     Slice(s, IF k = 1 THEN 1 ELSE ms[k - 1][2],
              IF k > Len(ms) THEN Len(s) + 1 ELSE ms[k][1])]

\* re.split with one capturing group around the whole pattern: the pieces
\* and the matched texts, alternating
PiecesAndMatches(s, ms) ==
  [k \in 1..(2 * Len(ms) + 1) |->
     IF k % 2 = 1 THEN Pieces(s, ms)[(k + 1) \div 2]
     ELSE Slice(s, ms[k \div 2][1], ms[k \div 2][2])]

\* '$' without re.M: the end of the string, or just before a final newline
\* (k characters consumed so far)
DollarAt(s, k) == k = Len(s) \/ (k = Len(s) - 1 /\ s[Len(s)] = NL)

(***************************************************************************)
(* Nodes                                                                   *)
(***************************************************************************)
Text(t) == [type |-> "Text", text |-> t]
Emphasis(t) == [type |-> "Emphasis", text |-> t]
Bold(t) == [type |-> "Bold", text |-> t]
Code(t) == [type |-> "Code", text |-> t]
Paragraph(items) == [type |-> "Paragraph", items |-> items]
List(items) == [type |-> "List", items |-> items]
Header(level, items) == [type |-> "Header", level |-> level, items |-> items]

\* a plain str, where the source tells it from a node with isinstance
Str(s) == [type |-> "str", value |-> s]

\* an exception leaving parse_block
Exception(kind) == [type |-> "Exception", kind |-> kind]

(***************************************************************************)
(* split_into_blocks                                                       *)
(***************************************************************************)
\* the matches of \n{2,} in s from position p on
RECURSIVE BlankRuns(_, _)
BlankRuns(s, p) ==
  IF p > Len(s) THEN <<>>
  ELSE LET n == RunLen(s, p, {NL})
       IN  IF n >= 2 THEN <<<<p, p + n>>>> \o BlankRuns(s, p + n)
           ELSE BlankRuns(s, p + 1)

\* re.split(r'\n{2,}', string)
SplitBlankLines(s) == Pieces(s, BlankRuns(s, 1))

\* re.match('```[\s\S]*[^`]$', block)
IsCodeStart(block) ==
  /\ StartsWith(block, FENCE)
  /\ \E p \in 4..Len(block) : block[p] # BT /\ DollarAt(block, p)

\* re.match('[\s\S]*```$', block)
IsCodeEnd(block) ==
  \E k \in 3..Len(block) : DollarAt(block, k) /\ Slice(block, k - 2, k + 1) = FENCE

(***************************************************************************)
(* parse_part, parse_paragraph                                             *)
(***************************************************************************)
\* the first position k >= p with s[k] = '*', or 0
NextStar(s, p) ==
  LET ks == {k \in p..Len(s) : s[k] = STAR}
  IN  IF ks = {} THEN 0 ELSE MinOf(ks)

\* \*\*[^\*]*\*\* matched at position p: the end of the match (exclusive),
\* or 0.  [^\*]* takes every character up to the next '*', and giving
\* characters back cannot help, since what follows has to be a '*'.
BoldEnd(s, p) ==
  IF p + 1 <= Len(s) /\ s[p] = STAR /\ s[p + 1] = STAR
  THEN LET q == NextStar(s, p + 2)
       IN  IF q > 0 /\ q + 1 <= Len(s) /\ s[q + 1] = STAR THEN q + 2 ELSE 0
  ELSE 0

\* \*[^\*]*\* matched at position p
EmphasisEnd(s, p) ==
  IF p <= Len(s) /\ s[p] = STAR
  THEN LET q == NextStar(s, p + 1)
       IN  IF q > 0 THEN q + 1 ELSE 0
  ELSE 0

\* (\*\*[^\*]*\*\*|\*[^\*]*\*) matched at position p: the first alternative
\* that matches
InlineEnd(s, p) ==
  IF BoldEnd(s, p) > 0 THEN BoldEnd(s, p) ELSE EmphasisEnd(s, p)

RECURSIVE InlineMatches(_, _)
InlineMatches(s, p) ==
  IF p > Len(s) THEN <<>>
  ELSE IF InlineEnd(s, p) > 0
       THEN <<<<p, InlineEnd(s, p)>>>> \o InlineMatches(s, InlineEnd(s, p))
       ELSE InlineMatches(s, p + 1)

\* re.split('(\*\*[^\*]*\*\*|\*[^\*]*\*)', block)
SplitInline(s) == PiecesAndMatches(s, InlineMatches(s, 1))

\* the inline elements with Emphasis tried first
INLINE_ELEMENTS_emphasis_first == <<"Emphasis", "Bold">>

INLINE_ELEMENTS == <<"Bold", "Emphasis">>

\* re.match(regexp, string) for the regular expression of klass: the end of
\* the match at the start of the string, or 0
InlineElementEnd(klass, s) ==
  IF klass = "Bold" THEN BoldEnd(s, 1) ELSE EmphasisEnd(s, 1)

\* klass(match.group(1))
InlineElement(klass, s) ==
  IF klass = "Bold"
  THEN Bold(Slice(s, 3, BoldEnd(s, 1) - 2))
  ELSE Emphasis(Slice(s, 2, EmphasisEnd(s, 1) - 1))

parse_part(s) ==
  LET hits == {k \in 1..Len(INLINE_ELEMENTS) :
                 InlineElementEnd(INLINE_ELEMENTS[k], s) > 0}
  IN  IF hits = {} THEN Text(s)
      ELSE InlineElement(INLINE_ELEMENTS[MinOf(hits)], s)

\* list(map(parse_part, parts))
MapParts(parts) == [k \in 1..Len(parts) |-> parse_part(parts[k])]

\* a parse_paragraph that drops the empty strings of the split
parse_paragraph_skip_empty(block) ==
  Paragraph(MapParts(SelectSeq(SplitInline(block), LAMBDA part : part # <<>>)))

parse_paragraph(block) == Paragraph(MapParts(SplitInline(block)))

(***************************************************************************)
(* parse_header                                                            *)
(***************************************************************************)
\* '^' with re.M: the start of the string or just after a newline
AtLineStart(s, p) == p = 1 \/ s[p - 1] = NL

MaxHeaderLevel == 6

\* ^#+ matched at position p: a run of '#' of any length
HeaderEnd_unbounded(s, p) ==
  IF AtLineStart(s, p) /\ s[p] = HASH THEN p + RunLen(s, p, {HASH}) ELSE 0

\* ^#{1,6} matched at position p
HeaderEnd(s, p) ==
  IF AtLineStart(s, p) /\ s[p] = HASH
  THEN p + (IF RunLen(s, p, {HASH}) < MaxHeaderLevel
            THEN RunLen(s, p, {HASH}) ELSE MaxHeaderLevel)
  ELSE 0

RECURSIVE HeaderMatches(_, _)
HeaderMatches(s, p) ==
  IF p > Len(s) THEN <<>>
  ELSE IF HeaderEnd(s, p) > 0
       THEN <<<<p, HeaderEnd(s, p)>>>> \o HeaderMatches(s, HeaderEnd(s, p))
       ELSE HeaderMatches(s, p + 1)

\* Returns the Paragraph of the headers, whose items are still strings, or
\* the string itself.
parse_header(s) ==
  LET ms == HeaderMatches(s, 1)
      matches == [k \in 1..Len(ms) |-> Slice(s, ms[k][1], ms[k][2])]
      header_items == Tail(Pieces(s, ms))
  IN  IF Len(matches) > 0
      THEN Paragraph([k \in 1..Len(matches) |->
                        Header(Len(matches[k]), Strip(header_items[k]))])
      ELSE Str(s)

(***************************************************************************)
(* parse_block                                                             *)
(***************************************************************************)
\* the class [-|\*]
MarkerChars == {"-", "|", STAR}

\* [-|\*]\s+ matched at position p
MarkerEnd(s, p) ==
  IF p + 1 <= Len(s) /\ s[p] \in MarkerChars /\ IsWs(s[p + 1])
  THEN p + 1 + RunLen(s, p + 1, {SP, NL})
  ELSE 0

\* ^[-|\*]\s+ with re.M
RECURSIVE ListMatches(_, _)
ListMatches(s, p) ==
  IF p > Len(s) THEN <<>>
  ELSE IF AtLineStart(s, p) /\ MarkerEnd(s, p) > 0
       THEN <<<<p, MarkerEnd(s, p)>>>> \o ListMatches(s, MarkerEnd(s, p))
       ELSE ListMatches(s, p + 1)

\* \s+[-|\*]\s+ matched at position p.  \s+ takes the whole run of
\* whitespace: the character after it has to be a marker character.
NestedEnd(s, p) ==
  IF p <= Len(s) /\ IsWs(s[p])
  THEN MarkerEnd(s, p + RunLen(s, p, {SP, NL}))
  ELSE 0

RECURSIVE NestedMatches(_, _)
NestedMatches(s, p) ==
  IF p > Len(s) THEN <<>>
  ELSE IF NestedEnd(s, p) > 0
       THEN <<<<p, NestedEnd(s, p)>>>> \o NestedMatches(s, NestedEnd(s, p))
       ELSE NestedMatches(s, p + 1)

\* [x.strip() for x in xs]
StripAll(xs) == [k \in 1..Len(xs) |-> Strip(xs[k])]

\* list(map(parse_paragraph, items))
MapParagraphs(items) == [k \in 1..Len(items) |-> parse_paragraph(items[k])]

\* the body of the loop over lists.items: the item after the iteration, or
\* the exception that leaves the loop
NestedListPass(item) ==
  IF Len(item.items) = 0 THEN Exception("IndexError")
  ELSE IF item.items[1].type \notin {"Text", "Emphasis", "Bold", "Code"}
  THEN Exception("AttributeError")
  ELSE LET text == item.items[1].text
       IN  IF NestedMatches(text, 1) # <<>>
           THEN LET inner_items == StripAll(Pieces(text, NestedMatches(text, 1)))
                IN  IF Len(inner_items) = 0 THEN Exception("IndexError")
                    ELSE Paragraph(<<parse_paragraph(inner_items[1]),
                                     List(MapParagraphs(Tail(inner_items)))>>)
           ELSE item

\* the header branch: every header's string is split into inline spans
HeaderBranch(para) ==
  Paragraph([k \in 1..Len(para.items) |->
               Header(para.items[k].level, MapParts(SplitInline(para.items[k].items)))])

\* the list branch
ListBranch(block) ==
  LET items == StripAll(Tail(Pieces(block, ListMatches(block, 1))))
      lists == List(MapParagraphs(items))
      passed == [k \in 1..Len(lists.items) |-> NestedListPass(lists.items[k])]
      failed == {k \in 1..Len(passed) : passed[k].type = "Exception"}
  IN  IF failed # {} THEN passed[MinOf(failed)] ELSE List(passed)

parse_block(block) ==
  IF StartsWith(block, FENCE) THEN Paragraph(<<Code(block)>>)
  ELSE IF parse_header(block).type # "str" THEN HeaderBranch(parse_header(block))
  ELSE IF MarkerEnd(block, 1) > 0 THEN ListBranch(block)
  ELSE parse_paragraph(block)

(***************************************************************************)
(* Inputs: the strings made of a bounded number of tokens                  *)
(***************************************************************************)
\* the concatenation of a sequence of tokens
RECURSIVE Flatten(_)
Flatten(q) == IF Len(q) = 0 THEN <<>> ELSE q[1] \o Flatten(Tail(q))

\* s is made of at most n tokens of T
IsTokenString(s, T, n) == \E k \in 0..n : \E q \in [1..k -> T] : s = Flatten(q)

MaxFenceTokens == 6
MaxBlockTokens == 5
MaxInlineTokens == 7
MaxListTokens == 5

\* fences, single backquotes, text, blank lines and single newlines
FenceTokens == {FENCE, <<BT>>, <<"a">>, <<NL, NL>>, <<NL>>}
\* headers of up to 30 '#', list markers, fences and lines
BlockTokens == {<<HASH>>, <<HASH, HASH, HASH, HASH, HASH, HASH>>, <<"a">>,
                <<NL>>, <<"-", SP>>, FENCE}
\* balanced and unbalanced '*' and '**'
InlineTokens == {<<STAR, STAR>>, <<STAR>>, <<"a">>, <<SP>>}
\* list items with the markers '-', '|' and '*', indented sub-items, emphasis
\* and lone '*' in items
ListTokens == {<<"-", SP>>, <<"|", SP>>, <<STAR, SP>>, <<"a">>,
               <<STAR, "a", STAR>>, <<NL, SP, "-", SP>>}

\* s is an input of the model
IsInput(s) ==
  \/ IsTokenString(s, FenceTokens, MaxFenceTokens)
  \/ IsTokenString(s, BlockTokens, MaxBlockTokens)
  \/ IsTokenString(s, InlineTokens, MaxInlineTokens)
  \/ IsTokenString(s, ListTokens, MaxListTokens)

(***************************************************************************)
(* parse_markdown(string), one step at a time                              *)
(***************************************************************************)
Init ==
  /\ IsInput(string)
  /\ pc = "start"
  /\ _blocks = <<>>
  /\ i = 0
  /\ tmp = <<>>
  /\ closed = TRUE
  /\ blocks = <<>>
  /\ j = 0
  /\ doc = <<>>

\* split_into_blocks up to the loop
Split ==
  /\ pc = "start"
  /\ _blocks' = SplitBlankLines(string)
  /\ blocks' = <<>>
  /\ tmp' = <<>>
  /\ closed' = TRUE
  /\ i' = 0
  /\ pc' = "loop"
  /\ UNCHANGED <<string, j, doc>>

\* the loop body without tmp.clear()
LoopBody_no_clear ==
  /\ pc = "loop"
  /\ i < Len(_blocks)
  /\ LET block == _blocks[i + 1]
         tmp1 == Append(tmp, block)
         closed1 == IF closed THEN ~IsCodeStart(block) ELSE IsCodeEnd(block)
     IN  /\ tmp' = tmp1
         /\ closed' = closed1
         /\ blocks' = IF closed1 THEN Append(blocks, Join(tmp1, <<NL, NL>>))
                      ELSE blocks
  /\ i' = i + 1
  /\ UNCHANGED <<string, pc, _blocks, j, doc>>

\* one iteration of the loop of split_into_blocks, on _blocks[i]
LoopBody ==
  /\ pc = "loop"
  /\ i < Len(_blocks)
  /\ LET block == _blocks[i + 1]
         tmp1 == Append(IF closed THEN <<>> ELSE tmp, block)
         closed1 == IF closed THEN ~IsCodeStart(block) ELSE IsCodeEnd(block)
     IN  /\ tmp' = tmp1
         /\ closed' = closed1
         /\ blocks' = IF closed1 THEN Append(blocks, Join(tmp1, <<NL, NL>>))
                      ELSE blocks
  /\ i' = i + 1
  /\ UNCHANGED <<string, pc, _blocks, j, doc>>

\* the loop is over: split_into_blocks returns blocks
Return ==
  /\ pc = "loop"
  /\ i = Len(_blocks)
  /\ pc' = "parse"
  /\ j' = 0
  /\ UNCHANGED <<string, _blocks, i, tmp, closed, blocks, doc>>

\* parse_block on the next block of the list comprehension
ParseBlock ==
  /\ pc = "parse"
  /\ j < Len(blocks)
  /\ LET node == parse_block(blocks[j + 1])
     IN  IF node.type = "Exception"
         THEN pc' = "raised" /\ UNCHANGED <<j, doc>>
         ELSE pc' = pc /\ j' = j + 1 /\ doc' = Append(doc, node)
  /\ UNCHANGED <<string, _blocks, i, tmp, closed, blocks>>

\* Markdown(...) is built and returned
Finish ==
  /\ pc = "parse"
  /\ j = Len(blocks)
  /\ pc' = "done"
  /\ UNCHANGED <<string, _blocks, i, tmp, closed, blocks, j, doc>>

Next == Split \/ LoopBody \/ Return \/ ParseBlock \/ Finish

Spec == Init /\ [][Next]_vars

(***************************************************************************)
(* Properties                                                              *)
(***************************************************************************)
\* the set S in increasing order
RECURSIVE Sorted(_)
Sorted(S) == IF S = {} THEN <<>> ELSE <<MinOf(S)>> \o Sorted(S \ {MinOf(S)})

\* t occurs in s
IsSubstring(t, s) == \E p \in 1..(Len(s) - Len(t) + 1) : SubSeq(s, p, p + Len(t) - 1) = t

\* the source text of a sequence of inline spans
RECURSIVE Unparse(_)
Unparse(spans) ==
  IF Len(spans) = 0 THEN <<>>
  ELSE (IF spans[1].type = "Bold" THEN <<STAR, STAR>> \o spans[1].text \o <<STAR, STAR>>
        ELSE IF spans[1].type = "Emphasis" THEN <<STAR>> \o spans[1].text \o <<STAR>>
        ELSE spans[1].text) \o Unparse(Tail(spans))

IsSpans(items) ==
  \A k \in 1..Len(items) : items[k].type \in {"Text", "Emphasis", "Bold"}

\* an item of a List that the nested-list pass has rewritten
IsNestedItem(item) ==
  /\ item.type = "Paragraph"
  /\ Len(item.items) = 2
  /\ item.items[1].type = "Paragraph"
  /\ item.items[2].type = "List"

\* the number of steps the call can still take, at most
StepsLeft ==
  IF pc = "start" THEN 2 * Len(string) + 6
  ELSE IF pc = "loop" THEN (Len(_blocks) - i) + Len(string) + 4
  ELSE IF pc = "parse" THEN (Len(blocks) - j) + 1
  ELSE 0

\* C1: parse_markdown is total: on every input, malformed or not, no
\* exception leaves the call (in particular none from item.items[0].text or
\* inner_items[0] in the nested-list pass), the call can always take its next
\* step until it has returned (the guard of one of its steps holds), every
\* step brings the return nearer, and what it returns is a document with one
\* Paragraph or List per block.
C1_Total ==
  /\ [](/\ pc # "raised"
        /\ pc # "done" =>
             \/ pc = "start"
             \/ pc = "loop" /\ i <= Len(_blocks)
             \/ pc = "parse" /\ j <= Len(blocks)
        /\ pc = "done" =>
             /\ Len(doc) = Len(blocks)
             /\ \A k \in 1..Len(doc) : doc[k].type \in {"Paragraph", "List"})
  /\ [][StepsLeft' < StepsLeft]_vars

\* the call has returned a document with a list whose item was rewritten by
\* the nested-list pass
C1_Witness ==
  /\ pc = "done"
  /\ \E k \in 1..Len(doc) :
       /\ doc[k].type = "List"
       /\ \E m \in 1..Len(doc[k].items) : IsNestedItem(doc[k].items[m])

(***************************************************************************)
(* Fenced code regions                                                     *)
(***************************************************************************)
BlankLine == <<NL, NL>>

\* s is one fenced code region with a blank line in it: an opening fence, a
\* body without backquotes that has a blank line somewhere, a closing fence
IsFencedRegionWithBlankLine(s) ==
  /\ Len(s) >= 8
  /\ StartsWith(s, FENCE)
  /\ EndsWith(s, FENCE)
  /\ \A p \in 4..(Len(s) - 3) : s[p] # BT
  /\ IsSubstring(BlankLine, Slice(s, 4, Len(s) - 2))

\* C2: an input that is one fenced code region with one or more blank lines
\* anywhere between the opening and the closing fence comes out of
\* split_into_blocks as exactly one block, the whole region, and
\* parse_markdown yields exactly one Code node for it.
C2_FenceKeptWhole ==
  (pc = "done" /\ IsFencedRegionWithBlankLine(string)) =>
     /\ Len(blocks) = 1
     /\ doc = <<Paragraph(<<Code(blocks[1])>>)>>

\* C3: the text of every Code node is, character for character, a piece of
\* the input (every run of newlines inside the fence keeps its length), and
\* the block of a Code node holds nothing but that Code node.
C3_CodeVerbatim ==
  \A k \in 1..Len(doc) :
     StartsWith(blocks[k], FENCE) =>
        /\ doc[k] = Paragraph(<<Code(blocks[k])>>)
        /\ IsSubstring(doc[k].items[1].text, string)

\* a fragment that opens a code fence, in the words of the claim and for the
\* regular expression of the source alike
OpensFence(f) == StartsWith(f, FENCE) /\ Len(f) >= 4 /\ f[Len(f)] # BT

\* a fragment that ends with a fence, possibly before a final newline
ClosesFence(f) == EndsWith(f, FENCE) \/ EndsWith(f, FENCE \o <<NL>>)

\* C4: when a fragment opens a code fence and no later fragment ends with a
\* triple backquote, the content from that fragment on is emitted at the end
\* of the input: every fragment is contained in some output block and the
\* document has a node for each block.
C4_UnterminatedFlushed ==
  (/\ pc = "done"
   /\ \E f \in 1..Len(_blocks) :
        /\ OpensFence(_blocks[f])
        /\ \A g \in (f + 1)..Len(_blocks) : ~ClosesFence(_blocks[g])) =>
     /\ Len(blocks) >= 1
     /\ Len(doc) = Len(blocks)
     /\ \A f \in 1..Len(_blocks) : \E k \in 1..Len(blocks) : IsSubstring(_blocks[f], blocks[k])

(***************************************************************************)
(* The loop of split_into_blocks                                           *)
(***************************************************************************)
\* the blocks are the joins of the consecutive runs of fragments that end at
\* the fragments ends[1] < ends[2] < ..., which make up the first n
\* fragments; a run of more than one fragment starts with a fragment that
\* opens a fence and ends at the first later fragment for which Ends holds
IsPartition(ends, n, Ends(_)) ==
  /\ \A k \in 1..(Len(blocks) - 1) : ends[k] < ends[k + 1]
  /\ IF Len(blocks) = 0 THEN n = 0 ELSE ends[Len(blocks)] = n
  /\ \A k \in 1..Len(blocks) :
       LET first == IF k = 1 THEN 1 ELSE ends[k - 1] + 1
       IN  /\ blocks[k] = Join(SubSeq(_blocks, first, ends[k]), BlankLine)
           /\ ends[k] > first =>
                /\ StartsWith(_blocks[first], FENCE)
                /\ ~EndsWith(_blocks[first], FENCE)
                /\ Ends(_blocks[ends[k]])
                /\ \A f \in (first + 1)..(ends[k] - 1) : ~Ends(_blocks[f])

\* the fragments behind the output blocks: all the processed ones when closed
\* is true, all but those accumulated in tmp otherwise
Emitted == IF closed THEN i ELSE i - Len(tmp)

LoopInvariant(Ends(_)) ==
  /\ Emitted >= 0
  /\ \E ends \in [1..Len(blocks) -> 1..Emitted] : IsPartition(ends, Emitted, Ends)

EndsWithFence(f) == EndsWith(f, FENCE)

\* C10 as stated: after any prefix of the fragments, the output blocks are
\* the double-newline joins of disjoint runs of consecutive fragments, in
\* input order; a run of more than one fragment starts with a code-start
\* fragment and ends at the first later fragment that ends with a triple
\* backquote; when closed is true every processed fragment is in exactly one
\* block; and a block is appended only in an iteration that ends with closed
\* true.
C10_Original ==
  /\ [](LoopInvariant(EndsWithFence))
  /\ [][Len(blocks') > Len(blocks) => closed']_vars

\* C10, amended: the same, where the fragment that ends a run of more than
\* one fragment ends with a triple backquote or with a triple backquote and
\* the final newline of the input.
C10_LoopInvariant ==
  /\ [](LoopInvariant(ClosesFence))
  /\ [][Len(blocks') > Len(blocks) =>
          /\ closed'
          /\ Len(blocks') = Len(blocks) + 1
          /\ SubSeq(blocks', 1, Len(blocks)) = blocks]_vars

\* the loop has closed a fence that a blank line had left open: the last
\* block is the join of more than one fragment
C10_Witness ==
  /\ pc = "loop"
  /\ closed
  /\ Len(tmp) > 1
  /\ Len(blocks) > 1
  /\ blocks[Len(blocks)] = Join(tmp, BlankLine)

(***************************************************************************)
(* Classification of a block                                               *)
(***************************************************************************)
\* the positions of block at which a line starts with '#'
HeaderLineStarts(block) ==
  {p \in 1..Len(block) : block[p] = HASH /\ (p = 1 \/ block[p - 1] = NL)}

\* the block begins with '-' or '*' followed by whitespace
BeginsWithListMarker(block) ==
  Len(block) >= 2 /\ block[1] \in {"-", STAR} /\ block[2] \in {SP, NL}

\* C5: every block is classified in the order code > header > list >
\* paragraph: a block that starts with a triple backquote gives
\* Paragraph([Code]); otherwise, if a line of it starts with '#', a Paragraph
\* of Header nodes only; otherwise, if it begins with a list marker ('-' or
\* '*', then whitespace), a List; otherwise a Paragraph of inline spans.
C5_Priority ==
  \A k \in 1..Len(doc) :
     IF StartsWith(blocks[k], FENCE)
     THEN doc[k] = Paragraph(<<Code(blocks[k])>>)
     ELSE IF HeaderLineStarts(blocks[k]) # {}
     THEN /\ doc[k].type = "Paragraph"
          /\ Len(doc[k].items) >= 1
          /\ \A m \in 1..Len(doc[k].items) : doc[k].items[m].type = "Header"
     ELSE IF BeginsWithListMarker(blocks[k])
     THEN doc[k].type = "List"
     ELSE doc[k].type = "Paragraph" /\ IsSpans(doc[k].items)

\* n times '#'
Hashes(n) == [k \in 1..n |-> HASH]

\* C6: the Header nodes of a block are those of its lines that start with
\* '#', in order; the level of each is min(n, 6), between 1 and 6, for the
\* run of n '#' at the start of its line; when n > 6, the content starts
\* with a Text span that begins with the n - 6 excess '#', and the content
\* as a whole is those '#' and the text after them, trimmed.  Header nodes
\* occur nowhere else.
C6_HeaderLevel ==
  \A k \in 1..Len(doc) :
     LET block == blocks[k]
         starts == IF StartsWith(block, FENCE) THEN <<>>
                   ELSE Sorted(HeaderLineStarts(block))
         headers == IF doc[k].type = "Paragraph"
                    THEN SelectSeq(doc[k].items, LAMBDA x : x.type = "Header")
                    ELSE <<>>
     IN  /\ Len(headers) = Len(starts)
         /\ \A m \in 1..Len(starts) :
              LET n == RunLen(block, starts[m], {HASH})
                  level == IF n < 6 THEN n ELSE 6
                  stop == IF m < Len(starts) THEN starts[m + 1] ELSE Len(block) + 1
              IN  /\ headers[m].level = level
                  /\ headers[m].level \in 1..6
                  /\ n > 6 =>
                       /\ headers[m].items[1].type = "Text"
                       /\ StartsWith(headers[m].items[1].text, Hashes(n - 6))
                       /\ Unparse(headers[m].items)
                            = Strip(Slice(block, starts[m] + 6, stop))

\* a header line of more than six '#' followed by text has been parsed
C6_Witness ==
  /\ pc = "done"
  /\ \E k \in 1..Len(doc) :
       /\ doc[k].type = "Paragraph"
       /\ \E m \in 1..Len(doc[k].items) :
            /\ doc[k].items[m].type = "Header"
            /\ doc[k].items[m].level = 6
            /\ doc[k].items[m].items = <<Text(<<HASH, "a">>)>>

\* C9: a block that is no code fence and has no header line is parsed as a
\* List if and only if it begins with '-' or '*' followed by whitespace, with
\* one Paragraph item per marker at a line start; a block that begins with
\* anything else is parsed as a plain Paragraph of inline spans.
C9_ListIffMarker ==
  \A k \in 1..Len(doc) :
     (~StartsWith(blocks[k], FENCE) /\ HeaderLineStarts(blocks[k]) = {}) =>
        IF BeginsWithListMarker(blocks[k])
        THEN /\ doc[k].type = "List"
             /\ Len(doc[k].items) >= 1
             /\ \A m \in 1..Len(doc[k].items) : doc[k].items[m].type = "Paragraph"
        ELSE doc[k].type = "Paragraph" /\ IsSpans(doc[k].items)

(***************************************************************************)
(* Inline spans                                                            *)
(***************************************************************************)
\* x and y: the words of one or two 'a'; t: a separator, which may be empty
Words == {<<"a">>, <<"a", "a">>}
Separators == {<<>>, <<SP>>, <<"a">>, <<SP, "a">>, <<"a", "a">>}

\* '**' x '**' t '*' y '*'
BoldThenEmphasis(x, t, y) ==
  <<STAR, STAR>> \o x \o <<STAR, STAR>> \o t \o <<STAR>> \o y \o <<STAR>>

\* C7 as stated: tokenizing '**' x '**' t '*' y '*', for x, t and y without
\* '*', yields exactly the spans Bold(x), Text(t), Emphasis(y), and no other
\* span.
C7_Original ==
  \A k \in 1..Len(doc) : \A x \in Words, t \in Separators, y \in Words :
     blocks[k] = BoldThenEmphasis(x, t, y) =>
        doc[k] = Paragraph(<<Bold(x), Text(t), Emphasis(y)>>)

\* C7, amended: tokenizing '**' x '**' t '*' y '*', for x, t and y without
\* '*', yields exactly the spans Text(''), Bold(x), Text(t), Emphasis(y),
\* Text(''): '**x**' is one Bold span, never Emphasis spans, and the only
\* other spans are the empty Text spans before the first and after the last
\* match.
C7_BoldFirst ==
  \A k \in 1..Len(doc) : \A x \in Words, t \in Separators, y \in Words :
     blocks[k] = BoldThenEmphasis(x, t, y) =>
        doc[k] = Paragraph(<<Text(<<>>), Bold(x), Text(t), Emphasis(y), Text(<<>>)>>)

\* '**a** *a*' has been tokenized
C7_Witness ==
  /\ pc = "done"
  /\ string = BoldThenEmphasis(<<"a">>, <<SP>>, <<"a">>)
  /\ Len(doc) = 1
  /\ Len(doc[1].items) = 5
  /\ doc[1].items[2] = Bold(<<"a">>)

(***************************************************************************)
(* Nested lists                                                            *)
(***************************************************************************)
\* the texts of an item: plain, emphasised, bold
ItemTexts == {<<"a">>, <<STAR, "a", STAR>>, <<STAR, STAR, "a", STAR, STAR>>}

\* '- ' h, then one indented sub-item s
NestedListBlock(h, s1) == <<"-", SP>> \o h \o <<NL, SP, "-", SP>> \o s1

\* C8: a list item with first line h and an indented sub-item s1 is parsed
\* as the two elements Paragraph(tokenize(h)) and
\* List([Paragraph(tokenize(s1))]), with the emphasis and the bold of h and
\* s1 kept as spans.
C8_NestedItem ==
  \A k \in 1..Len(doc) : \A h \in ItemTexts, s1 \in ItemTexts :
     blocks[k] = NestedListBlock(h, s1) =>
        doc[k] = List(<<Paragraph(<<parse_paragraph(h),
                                   List(<<parse_paragraph(s1)>>)>>)>>)

====
